---- MODULE Spec2Model ----
(***************************************************************************)
(* A model of the epson crate: the model capability table (models.rs),     *)
(* the image packer (epson_image.rs), the command encoder (commands.rs)    *)
(* and the capability-gated Writer in its blocking (write.rs) and async    *)
(* (async_tokio.rs) calling conventions.                                   *)
(*                                                                         *)
(* Values.  A byte is a number in 0..255 and a byte string a sequence of   *)
(* bytes.  A Command is a record with a tag and the variant's parameter.   *)
(* A raster (image::GrayImage) is a record of its width, its height and    *)
(* its sample buffer; a Result is a record whose kind says which variant   *)
(* it is.                                                                  *)
(***************************************************************************)
EXTENDS Integers, Sequences, FiniteSets, TLC

VARIABLES
    overflow_checks,  \* the build profile: whether integer overflow panics (debug) or wraps (release)
    ws,               \* the Writers under observation, by calling convention
    enc,              \* the encoder exercised on its own: a Command and its encoding
    cap,              \* the capability table exercised on its own: a query and its answers
    bc                \* the barcode constructor exercised on its own: the data given and the result

vars == <<overflow_checks, ws, enc, cap, bc>>

----------------------------------------------------------------------------
(* Bounds of the model. *)

\* The number of calls a caller issues on a Writer after open.
MaxCalls == 2

\* The longest period of the sample buffers of the rasters given to the
\* packer.
MaxPattern == 3


----------------------------------------------------------------------------
(* Machine integers. *)

\* u8: one more than the largest value of a byte.
U8 == 256

\* u16::MAX, the largest packed width or height (try_into::<u16>).
U16Max == 65535

\* 2^32 / 8.  Image dimensions are u32.  A width w is held as the record
\* [q |-> w \div 8, r |-> w % 8], which keeps every u32 value within the
\* numbers the model checker computes with; u32 arithmetic on a width is
\* modulo 2^32, that is modulo U32Div8 on its q.
U32Div8 == 536870912

\* The u32 width of value n.
Width(n) == [q |-> n \div 8, r |-> n % 8]

\* u32::MAX as a width
WidthMax == [q |-> U32Div8 - 1, r |-> 7]

\* w > n and x < w, for a width w and numbers n, x
WidthGt(w, n) == w.q > n \div 8 \/ (w.q = n \div 8 /\ w.r > n % 8)
WidthLt(x, w) == x \div 8 < w.q \/ (x \div 8 = w.q /\ x % 8 < w.r)

RECURSIVE Pow2(_)
Pow2(n) == IF n = 0 THEN 1 ELSE 2 * Pow2(n - 1)

\* u16::to_be_bytes: the high byte first.
to_be_bytes(n) == <<n \div U8, n % U8>>

\* u16::to_le_bytes
to_le_bytes(n) == <<n % U8, n \div U8>>

----------------------------------------------------------------------------
(* models.rs: the model capability table. *)

Models == {"Generic", "T20II", "T30II"}

CharacterSets == {"Raw", "Unicode"}

get_max_image_width(model) ==
    CASE model = "Generic" -> 512
      [] model = "T20II"   -> 576
      [] model = "T30II"   -> 576

\* supports_character_set with the answers of the two named models exchanged.
supports_character_set_t20(model, c) ==
    CASE c = "Raw"     -> TRUE
      [] c = "Unicode" -> CASE model = "T20II"   -> TRUE
                            [] model = "T30II"   -> FALSE
                            [] model = "Generic" -> FALSE

supports_character_set(model, c) ==
    CASE c = "Raw"     -> TRUE
      [] c = "Unicode" -> CASE model = "T20II"   -> FALSE
                            [] model = "T30II"   -> TRUE
                            [] model = "Generic" -> FALSE

get_columns(model) ==
    CASE model = "Generic" -> 48
      [] model = "T20II"   -> 48
      [] model = "T30II"   -> 48

\* Result<(), Error> of the crate's pure layer.
EOk == [kind |-> "Ok", err |-> "none"]
EErr(e) == [kind |-> "Err", err |-> e]

\* img.dimensions()
dimensions(img) == <<img.width, img.height>>

\* check_image comparing whole bytes: width / 8 with the maximum / 8.
check_image_in_bytes(model, img) ==
    LET width == dimensions(img)[1] IN
    IF width.q > get_max_image_width(model) \div 8
    THEN EErr("ImageTooLarge")
    ELSE EOk

\* check_image rejecting a raster exactly at the maximum width (>= for >).
check_image_at_max(model, img) ==
    LET width == dimensions(img)[1] IN
    IF WidthGt(width, get_max_image_width(model) - 1)
    THEN EErr("ImageTooLarge")
    ELSE EOk

\* check_image answering a raster that is too wide with Unsupported.
check_image_unsupported(model, img) ==
    LET width == dimensions(img)[1] IN
    IF WidthGt(width, get_max_image_width(model))
    THEN EErr("Unsupported")
    ELSE EOk

check_image(model, img) ==
    LET width == dimensions(img)[1] IN
    IF WidthGt(width, get_max_image_width(model))
    THEN EErr("ImageTooLarge")
    ELSE EOk

----------------------------------------------------------------------------
(* barcode.rs: barcode values. *)

\* Barcode::UPCA(Vec<u8>)
UPCA(data) == [tag |-> "UPCA", data |-> data]

\* Result<Barcode, Error>; an Err carries no Barcode.
NewOk(b)  == [kind |-> "Ok", err |-> "none", value |-> <<b>>]
NewErr(e) == [kind |-> "Err", err |-> e, value |-> <<>>]

\* u8::is_ascii_digit
is_ascii_digit(b) == 48 <= b /\ b <= 57

\* new_upca accepting 12 digits only.
new_upca_twelve(data) ==
    IF Len(data) # 12
    THEN NewErr("InvalidBarcodeLength")
    ELSE IF ~(\A i \in 1..Len(data) : is_ascii_digit(data[i]))
    THEN NewErr("InvalidBarcodeCharacters")
    ELSE NewOk(UPCA(data))

\* Barcode::new_upca
new_upca(data) ==
    IF Len(data) # 11 /\ Len(data) # 12
    THEN NewErr("InvalidBarcodeLength")
    ELSE IF ~(\A i \in 1..Len(data) : is_ascii_digit(data[i]))
    THEN NewErr("InvalidBarcodeCharacters")
    ELSE NewOk(UPCA(data))

\* Barcode::data
Barcode_data(b) == b.data

\* Barcode::barcode_type
barcode_type(b) == 65

----------------------------------------------------------------------------
(* epson_image.rs: the image packer. *)

\* A raster of the image crate.  Its sample buffer is row-major, one u8 per
\* pixel; it is given by `samples`, repeated as often as the dimensions
\* need, so that a raster with Len(samples) = width * height is an
\* arbitrary raster and a large one is a periodic one.
Raster(w, h, s) == [width |-> Width(w), height |-> h, samples |-> s]

\* get_pixel_checked without the bound on x: a column past the width reads
\* on in the sample buffer.
get_pixel_unchecked(img, x, y) ==
    IF y < img.height
    THEN [some |-> TRUE,
          luma |-> img.samples[((y * (8 * img.width.q + img.width.r) + x)
                                 % Len(img.samples)) + 1]]
    ELSE [some |-> FALSE, luma |-> 0]

\* img.get_pixel_checked(x, y): the sample, or None outside the raster.
get_pixel_checked(img, x, y) ==
    IF WidthLt(x, img.width) /\ y < img.height
    THEN [some |-> TRUE,
          luma |-> img.samples[((y * (8 * img.width.q + img.width.r) + x)
                                 % Len(img.samples)) + 1]]
    ELSE [some |-> FALSE, luma |-> 0]

\* The inner loop: one output byte from the 8 pixels starting at (x, y).
RECURSIVE block_from(_, _, _, _)
block_from(img, x, y, bit) ==
    IF bit = 8 THEN 0
    ELSE LET pixel == get_pixel_checked(img, x + bit, y) IN
         (IF pixel.some /\ pixel.luma <= 128 THEN Pow2(7 - bit) ELSE 0)
         + block_from(img, x, y, bit + 1)

block(img, x, y) == block_from(img, x, y, 0)

\* The two outer loops: rows top to bottom, and in a row one byte per step
\* of 8 pixels below the padded width, which is 8 * cols.
pack_pixels(img, cols, height) ==
    [i \in 1..(height * cols) |->
        block(img, ((i - 1) % cols) * 8, (i - 1) \div cols)]

\* TryFrom<image::ImageBuffer> for ImageBuffer, in a build that checks
\* integer overflow (checks) or does not.  `width += 8 - (width % 8)` is
\* u32 arithmetic: past u32::MAX it panics when the build checks overflow
\* and wraps when it does not.
try_from_build(img, checks) ==
    LET w0      == dimensions(img)[1]
        height  == dimensions(img)[2]
        sum8    == IF w0.r # 0 THEN w0.q + 1 ELSE w0.q
        width8  == sum8 % U32Div8
        pixels  == pack_pixels(img, width8, height)
    IN  IF sum8 >= U32Div8 /\ checks
        THEN [kind |-> "Panic", err |-> "none", width |-> 0, height |-> 0, pixels |-> <<>>]
        ELSE IF width8 > U16Max
        THEN [kind |-> "Err", err |-> "ImageTooLarge", width |-> 0, height |-> 0, pixels |-> <<>>]
        ELSE IF height > U16Max
        THEN [kind |-> "Err", err |-> "ImageTooLarge", width |-> 0, height |-> 0, pixels |-> <<>>]
        ELSE [kind |-> "Ok", err |-> "none", width |-> width8, height |-> height, pixels |-> pixels]

\* Rasters around each limit: a small one with padding columns; at and
\* one past the maximum width of Generic (512) and of the named models
\* (576); one too high and one too wide for the packed u16 fields; and one
\* whose padded width is past u32::MAX.
SmallRaster     == Raster(9, 2, <<0, 129, 128, 255, 129>>)
TooHighRaster   == Raster(8, 65536, <<0>>)
TooWideRaster   == Raster(524281, 1, <<0>>)
OverflowRaster  == [width |-> WidthMax, height |-> 0, samples |-> <<0>>]

Rasters ==
    {SmallRaster, Raster(512, 1, <<0, 255>>), Raster(513, 1, <<128, 129>>),
     Raster(576, 1, <<255, 0, 0>>), Raster(577, 1, <<0>>),
     TooHighRaster, TooWideRaster, OverflowRaster}

\* Rasters given to the packer and the encoder on their own.  Small ones:
\* widths below, at and above one and two bytes, up to two rows, and every
\* sample buffer of period at most MaxPattern over samples at the ends of
\* the range and on either side of the threshold.
Lumas       == {0, 128, 129, 255}
Patterns    == UNION {[1..n -> Lumas] : n \in 1..MaxPattern}
PackWidths  == {0, 1, 7, 8, 9, 15, 16, 17}
PackHeights == {0, 1, 2}

SmallRasters ==
    {Raster(w, h, s) : w \in PackWidths, h \in PackHeights, s \in Patterns}

\* Rasters at and past the limits of the packed u16 fields and of the u32
\* width: packed width 65535 and 65536, height 65535 and 65536, widths
\* u32::MAX - 7 (a multiple of 8) and u32::MAX - 6 (padded past u32::MAX),
\* and one row of width u32::MAX.
LimitRasters ==
    {Raster(524280, 0, <<0>>), Raster(524273, 0, <<0>>), Raster(524281, 0, <<0>>),
     Raster(0, 65535, <<0>>), Raster(0, 65536, <<0>>),
     [width |-> [q |-> U32Div8 - 1, r |-> 0], height |-> 0, samples |-> <<0>>],
     [width |-> [q |-> U32Div8 - 1, r |-> 1], height |-> 0, samples |-> <<0>>],
     [width |-> WidthMax, height |-> 1, samples |-> <<0>>]}

\* Rasters whose packed width or height needs both bytes of its field.
TwoByteRasters ==
    {Raster(2041, 1, <<0, 255, 129>>), Raster(0, 258, <<0>>)}

PackerRasters == Rasters \cup SmallRasters \cup LimitRasters \cup TwoByteRasters

\* One-row rasters just below, at and just above the maximum width of a
\* model, multiples of 8 or not.
GateWidths == {505, 511, 512, 513, 519, 520, 569, 575, 576, 577, 583}

GateRasters == {Raster(w, 1, <<0, 255>>) : w \in GateWidths}

\* The rasters given to Writers.
WriterRasters == Rasters \cup GateRasters

\* The packer is a pure function of the raster and the build, so its
\* values on the rasters given to Writers are computed once and looked up.
Packed ==
    [img \in WriterRasters |-> [checks \in BOOLEAN |-> try_from_build(img, checks)]]

\* try_from in a given build.
try_from_in(img, checks) ==
    IF img \in WriterRasters THEN Packed[img][checks] ELSE try_from_build(img, checks)

\* try_from in the running build.
try_from(img) == try_from_in(img, overflow_checks)

----------------------------------------------------------------------------
(* commands.rs: the command encoder. *)

Alignments == {"Left", "Right", "Center"}

\* `as u8` with the discriminants left to the order of declaration
\* (Left, Right, Center).
Alignment_as_u8_declared(alignment) ==
    CASE alignment = "Left"   -> 0
      [] alignment = "Right"  -> 1
      [] alignment = "Center" -> 2

\* `*alignment as u8`: the discriminants of enum Alignment.
Alignment_as_u8(alignment) ==
    CASE alignment = "Left"   -> 0
      [] alignment = "Right"  -> 2
      [] alignment = "Center" -> 1

\* The variants of enum Command.
CmdInit             == [tag |-> "Init"]
CmdCut              == [tag |-> "Cut"]
CmdUnderline(s)     == [tag |-> "Underline", state |-> s]
CmdEmphasize(s)     == [tag |-> "Emphasize", state |-> s]
CmdDoubleStrike(s)  == [tag |-> "DoubleStrike", state |-> s]
CmdReverse(s)       == [tag |-> "Reverse", state |-> s]
CmdJustification(a) == [tag |-> "Justification", alignment |-> a]
CmdSpeed(n)         == [tag |-> "Speed", speed |-> n]
CmdFeed(n)          == [tag |-> "Feed", count |-> n]
CmdImage(img)       == [tag |-> "Image", img |-> img]
CmdCharacterSet(c)  == [tag |-> "CharacterSet", c |-> c]

\* Result<Vec<u8>, Error>
BOk(bytes) == [kind |-> "Ok", err |-> "none", bytes |-> bytes]
BErr(e)    == [kind |-> "Err", err |-> e, bytes |-> <<>>]
BPanic     == [kind |-> "Panic", err |-> "none", bytes |-> <<>>]

\* The encoding of Command::CharacterSet.  The variant and its arm of
\* as_bytes are not in commands.rs as given; the encoder is total on it
\* and its bytes are not stated, so the encoding is one symbol per
\* character set, outside 0..255: it stands for the whole byte string and
\* equals no byte of another command.
character_set_bytes(c) ==
    CASE c = "Raw"     -> <<-1>>
      [] c = "Unicode" -> <<-2>>

\* The Speed arm with the speed clamped to the fastest setting.
Speed_as_bytes_clamped(speed) ==
    <<29, 40, 75, 2, 0, 50, IF speed > 8 THEN 8 ELSE speed>>

\* The Speed arm of as_bytes: vec![0x1d, 0x28, 0x4b, 0x02, 0x00, 0x32, speed % 9]
Speed_as_bytes(speed) == <<29, 40, 75, 2, 0, 50, speed % 9>>

\* The Image arm of as_bytes: buf is what try_into() returned.
Image_as_bytes(buf) ==
    IF buf.kind = "Panic" THEN BPanic
    ELSE IF buf.kind = "Err" THEN BErr(buf.err)
    ELSE BOk(<<29, 118, 48, 0>> \o to_le_bytes(buf.width)
             \o to_le_bytes(buf.height) \o buf.pixels)

\* as_bytes with Emphasize(true) encoded as Underline(true) is, by 1.
as_bytes_build_emphasize_one(cmd, checks) ==
    CASE cmd.tag = "Init"          -> BOk(<<27, 64>>)
      [] cmd.tag = "Cut"           -> BOk(<<27, 105>>)
      [] cmd.tag = "Underline"     -> BOk(<<27, 45, IF cmd.state THEN 1 ELSE 0>>)
      [] cmd.tag = "Emphasize"     -> BOk(<<27, 69, IF cmd.state THEN 1 ELSE 0>>)
      [] cmd.tag = "DoubleStrike"  -> BOk(<<27, 71, IF cmd.state THEN 255 ELSE 0>>)
      [] cmd.tag = "Reverse"       -> BOk(<<27, 66, IF cmd.state THEN 255 ELSE 0>>)
      [] cmd.tag = "Justification" -> BOk(<<27, 97, Alignment_as_u8(cmd.alignment)>>)
      [] cmd.tag = "Feed"          -> BOk(<<27, 100, cmd.count>>)
      [] cmd.tag = "Speed"         -> BOk(Speed_as_bytes(cmd.speed))
      [] cmd.tag = "Image"         -> Image_as_bytes(try_from_in(cmd.img, checks))
      [] cmd.tag = "CharacterSet"  -> BOk(character_set_bytes(cmd.c))

\* Command::as_bytes, in a build that checks integer overflow or does not.
as_bytes_build(cmd, checks) ==
    CASE cmd.tag = "Init"          -> BOk(<<27, 64>>)
      [] cmd.tag = "Cut"           -> BOk(<<27, 105>>)
      [] cmd.tag = "Underline"     -> BOk(<<27, 45, IF cmd.state THEN 1 ELSE 0>>)
      [] cmd.tag = "Emphasize"     -> BOk(<<27, 69, IF cmd.state THEN 255 ELSE 0>>)
      [] cmd.tag = "DoubleStrike"  -> BOk(<<27, 71, IF cmd.state THEN 255 ELSE 0>>)
      [] cmd.tag = "Reverse"       -> BOk(<<27, 66, IF cmd.state THEN 255 ELSE 0>>)
      [] cmd.tag = "Justification" -> BOk(<<27, 97, Alignment_as_u8(cmd.alignment)>>)
      [] cmd.tag = "Feed"          -> BOk(<<27, 100, cmd.count>>)
      [] cmd.tag = "Speed"         -> BOk(Speed_as_bytes(cmd.speed))
      [] cmd.tag = "Image"         -> Image_as_bytes(try_from_in(cmd.img, checks))
      [] cmd.tag = "CharacterSet"  -> BOk(character_set_bytes(cmd.c))

\* The Commands the Writers and the callers of the encoder give it.
Commands ==
    {CmdInit, CmdCut}
    \cup {CmdUnderline(b) : b \in BOOLEAN}
    \cup {CmdEmphasize(b) : b \in BOOLEAN}
    \cup {CmdDoubleStrike(b) : b \in BOOLEAN}
    \cup {CmdReverse(b) : b \in BOOLEAN}
    \cup {CmdJustification(a) : a \in Alignments}
    \cup {CmdSpeed(n) : n \in 0..(U8 - 1)}
    \cup {CmdFeed(n) : n \in 0..(U8 - 1)}
    \cup {CmdCharacterSet(c) : c \in CharacterSets}
    \cup {CmdImage(img) : img \in Rasters}

\* The encoder is a pure function of the Command and the build, so its
\* values on Commands are computed once and looked up.
Encoded ==
    [cmd \in Commands |-> [checks \in BOOLEAN |-> as_bytes_build(cmd, checks)]]

\* Command::as_bytes in the running build.
as_bytes(cmd) ==
    IF cmd.tag = "Image" /\ cmd.img \notin Rasters
    THEN as_bytes_build(cmd, overflow_checks)
    ELSE Encoded[cmd][overflow_checks]

----------------------------------------------------------------------------
(* The transport collaborator (WriteT): an ordered byte sink.  `wire` is   *)
(* the bytes it has received, `nwrites` the number of write_all calls it   *)
(* has been given and `nfailed` the number of them it has failed.          *)

NewTransport == [wire |-> <<>>, nwrites |-> 0, nfailed |-> 0]

\* What a transport answers to one write_all: it takes the whole buffer, or
\* it fails, having taken nothing or all of the buffer but its last byte.
\* The transports considered fail at most one write each (MayFail).
IoOutcomes ==
    {[ok |-> TRUE, taken |-> "all"],
     [ok |-> FALSE, taken |-> "none"],
     [ok |-> FALSE, taken |-> "all_but_last"]}

MayFail(w) == w.nfailed = 0

\* The answers considered for the writes of an open Writer: a transport
\* that fails one of them has taken part of the buffer.  A transport that
\* fails having taken nothing is considered at open.
CallOutcomes == {io \in IoOutcomes : io.taken # "none"}

\* write_all(buf) on the transport, answered by `io`.  An empty buffer is
\* written without asking the transport for anything; a failed write has
\* taken fewer bytes than the buffer holds.
write_all(w, buf, io) ==
    LET ok    == io.ok \/ Len(buf) = 0
        taken == IF ok THEN Len(buf)
                 ELSE IF io.taken = "none" THEN 0
                 ELSE Len(buf) - 1
    IN  [w  |-> [wire    |-> w.wire \o SubSeq(buf, 1, taken),
                 nwrites |-> w.nwrites + 1,
                 nfailed |-> w.nfailed + (IF ok THEN 0 ELSE 1)],
         ok |-> ok]

----------------------------------------------------------------------------
(* write.rs: the blocking Writer (impl StdWriterExt for Writer).  A Writer *)
(* is [w, model]; a method yields the Writer after the call and the        *)
(* Result it returns.  A panic is a call that does not return.             *)

ROk       == [kind |-> "Ok", err |-> "none"]
RPanic    == [kind |-> "Panic", err |-> "none"]

\* write::Error: From<EpsonError> and From<std::io::Error>
Std_Epson(ee) == [kind |-> "Epson", err |-> ee]
Std_Io        == [kind |-> "Io", err |-> "io"]

Ret(self, res) == [self |-> self, res |-> res]

\* write_command giving the transport a write before it looks at the
\* encoder's Result.
Std_write_command_writes_first(self, cmd, io) ==
    LET bytes == as_bytes(cmd)
        r     == write_all(self.w, bytes.bytes, io)
    IN  IF bytes.kind = "Panic" THEN Ret(self, RPanic)
        ELSE IF bytes.kind = "Err" THEN Ret([self EXCEPT !.w = r.w], Std_Epson(bytes.err))
        ELSE IF r.ok THEN Ret([self EXCEPT !.w = r.w], ROk)
        ELSE Ret([self EXCEPT !.w = r.w], Std_Io)

\* write_command giving a failed write a second try.
Std_write_command_retry(self, cmd, io) ==
    LET bytes == as_bytes(cmd) IN
    IF bytes.kind = "Panic" THEN Ret(self, RPanic)
    ELSE IF bytes.kind = "Err" THEN Ret(self, Std_Epson(bytes.err))
    ELSE LET r == write_all(self.w, bytes.bytes, io) IN
         IF r.ok THEN Ret([self EXCEPT !.w = r.w], ROk)
         ELSE LET r2 == write_all(r.w, bytes.bytes, [ok |-> TRUE, taken |-> "all"])
              IN  Ret([self EXCEPT !.w = r2.w], ROk)

\* `self.w.write_all(..)?; Ok(())`: r is what the transport answered.
Std_written(self, r) ==
    IF r.ok THEN Ret([self EXCEPT !.w = r.w], ROk)
    ELSE Ret([self EXCEPT !.w = r.w], Std_Io)

\* `cmd.as_bytes()?` and then the one write: bytes is what as_bytes returned.
Std_write_bytes(self, bytes, io) ==
    IF bytes.kind = "Panic" THEN Ret(self, RPanic)
    ELSE IF bytes.kind = "Err" THEN Ret(self, Std_Epson(bytes.err))
    ELSE Std_written(self, write_all(self.w, bytes.bytes, io))

Std_write_command(self, cmd, io) == Std_write_bytes(self, as_bytes(cmd), io)

Std_init(self, io) == Std_write_command(self, CmdInit, io)

\* open returning the Writer without sending Init.
Std_open_without_init(model, w, io) ==
    Ret([w |-> w, model |-> model], ROk)

\* open discarding what init returned: `let _ = r.init(); Ok(r)`.
Std_opened_ignoring_init(i) == Ret(i.self, ROk)

\* open: `r.init()?; Ok(r)`.  On a failure of init the Writer is dropped
\* and only the error is returned.
Std_opened(i) ==
    IF i.res.kind # "Ok" THEN Ret(i.self, i.res)
    ELSE Ret(i.self, ROk)

Std_open(model, w, io) == Std_opened(Std_init([w |-> w, model |-> model], io))

\* character_set without the capability check.
Std_character_set_ungated(self, c, io) ==
    Std_write_command(self, CmdCharacterSet(c), io)

Std_character_set(self, c, io) ==
    IF ~supports_character_set(self.model, c)
    THEN Ret(self, Std_Epson("Unsupported"))
    ELSE Std_write_command(self, CmdCharacterSet(c), io)

Std_set_unicode(self, io) == Std_character_set(self, "Unicode", io)

Std_cut(self, io) == Std_write_command(self, CmdCut, io)

Std_underline(self, state, io) == Std_write_command(self, CmdUnderline(state), io)

Std_emphasize(self, state, io) == Std_write_command(self, CmdEmphasize(state), io)

Std_reverse(self, state, io) == Std_write_command(self, CmdReverse(state), io)

Std_double_strike(self, state, io) ==
    Std_write_command(self, CmdDoubleStrike(state), io)

Std_justify(self, alignment, io) ==
    Std_write_command(self, CmdJustification(alignment), io)

\* feed sending the Speed command.
Std_feed_as_speed(self, count, io) == Std_write_command(self, CmdSpeed(count), io)

Std_feed(self, count, io) == Std_write_command(self, CmdFeed(count), io)

Std_speed(self, speed, io) == Std_write_command(self, CmdSpeed(speed), io)

\* print_image_unchecked consulting the model as print_image does.
Std_print_image_unchecked_gated(self, img, io) ==
    LET chk == check_image(self.model, img) IN
    IF chk.kind = "Err" THEN Ret(self, Std_Epson(chk.err))
    ELSE Std_write_command(self, CmdImage(img), io)

Std_print_image_unchecked(self, img, io) ==
    Std_write_command(self, CmdImage(img), io)

Std_print_image(self, img, io) ==
    LET chk == check_image(self.model, img) IN
    IF chk.kind = "Err" THEN Ret(self, Std_Epson(chk.err))
    ELSE Std_print_image_unchecked(self, img, io)

\* impl Write for Writer, through Write::write_all: a raw write.  Its
\* failure is the transport's std::io::Error itself, not a write::Error.
Std_raw_written(self, r) ==
    IF r.ok THEN Ret([self EXCEPT !.w = r.w], ROk)
    ELSE Ret([self EXCEPT !.w = r.w], [kind |-> "io::Error", err |-> "io"])

Std_write_all(self, buf, io) == Std_raw_written(self, write_all(self.w, buf, io))

----------------------------------------------------------------------------
(* async_tokio.rs: the async Writer (impl AsyncWriterExt for Writer).      *)
(* Each method is the blocking one with the transport write awaited.       *)

\* async_tokio::Error: From<EpsonError> and From<tokio::io::Error>
Async_Epson(ee) == [kind |-> "Epson", err |-> ee]
Async_Tokio     == [kind |-> "Tokio", err |-> "io"]

\* `self.w.write_all(..).await?; Ok(())`
Async_written(self, r) ==
    IF r.ok THEN Ret([self EXCEPT !.w = r.w], ROk)
    ELSE Ret([self EXCEPT !.w = r.w], Async_Tokio)

Async_write_bytes(self, bytes, io) ==
    IF bytes.kind = "Panic" THEN Ret(self, RPanic)
    ELSE IF bytes.kind = "Err" THEN Ret(self, Async_Epson(bytes.err))
    ELSE Async_written(self, write_all(self.w, bytes.bytes, io))

Async_write_command(self, cmd, io) == Async_write_bytes(self, as_bytes(cmd), io)

Async_init(self, io) == Async_write_command(self, CmdInit, io)

Async_opened(i) ==
    IF i.res.kind # "Ok" THEN Ret(i.self, i.res)
    ELSE Ret(i.self, ROk)

Async_open(model, w, io) == Async_opened(Async_init([w |-> w, model |-> model], io))

Async_cut(self, io) == Async_write_command(self, CmdCut, io)

Async_character_set(self, c, io) ==
    IF ~supports_character_set(self.model, c)
    THEN Ret(self, Async_Epson("Unsupported"))
    ELSE Async_write_command(self, CmdCharacterSet(c), io)

Async_set_unicode(self, io) == Async_character_set(self, "Unicode", io)

Async_underline(self, state, io) ==
    Async_write_command(self, CmdUnderline(state), io)

Async_emphasize(self, state, io) ==
    Async_write_command(self, CmdEmphasize(state), io)

Async_reverse(self, state, io) ==
    Async_write_command(self, CmdReverse(state), io)

Async_double_strike(self, state, io) ==
    Async_write_command(self, CmdDoubleStrike(state), io)

Async_justify(self, alignment, io) ==
    Async_write_command(self, CmdJustification(alignment), io)

Async_feed(self, count, io) == Async_write_command(self, CmdFeed(count), io)

Async_speed(self, speed, io) == Async_write_command(self, CmdSpeed(speed), io)

Async_print_image_unchecked(self, img, io) ==
    Async_write_command(self, CmdImage(img), io)

\* The async print_image without the width check.
Async_print_image_ungated(self, img, io) ==
    Async_print_image_unchecked(self, img, io)

Async_print_image(self, img, io) ==
    LET chk == check_image(self.model, img) IN
    IF chk.kind = "Err" THEN Ret(self, Async_Epson(chk.err))
    ELSE Async_print_image_unchecked(self, img, io)

\* AsyncWriterExt::write_all: a raw write.
Async_write_all(self, buf, io) == Async_written(self, write_all(self.w, buf, io))

----------------------------------------------------------------------------
(* The inputs callers give. *)

Conventions == {"std", "tokio"}

Feeds == {0, 255}

Speeds == {8, 9}

\* Commands given to write_command directly.
RawCommands == {CmdJustification("Right"), CmdImage(TooHighRaster)}

\* Buffers given to a raw write: "HI\n".
RawBuffers == {<<72, 73, 10>>}

----------------------------------------------------------------------------
(* The state machine.  ws[c] is what a caller of convention c holds: the   *)
(* transport w, and once open has returned a Writer, the Writer's model.   *)
(* log is the calls issued so far, each with the Result it returned, the   *)
(* number of bytes the transport received during it and the number of      *)
(* write_all calls the transport was given during it.                      *)

Unopened == [phase |-> "Unopened", model |-> "none", w |-> NewTransport, log |-> <<>>]

Entry(op, arg, before, r) ==
    [op |-> op, arg |-> arg, res |-> r.res,
     sent   |-> Len(r.self.w.wire) - Len(before.w.wire),
     writes |-> r.self.w.nwrites - before.w.nwrites]

\* The caller opens a Writer of each convention under observation on a
\* fresh transport, for the same model.
Open ==
    /\ \A c \in DOMAIN ws : ws[c].phase = "Unopened"
    /\ DOMAIN ws # {}
    /\ \E model \in Models, io \in IoOutcomes :
          ws' = [c \in DOMAIN ws |->
                   LET r == IF c = "std" THEN Std_open(model, ws[c].w, io)
                            ELSE Async_open(model, ws[c].w, io)
                   IN  [phase |-> IF r.res.kind = "Ok" THEN "Open" ELSE "OpenFailed",
                        model |-> IF r.res.kind = "Ok" THEN r.self.model ELSE "none",
                        w     |-> r.self.w,
                        log   |-> <<Entry("open", [tag |-> "Open", model |-> model],
                                          ws[c], r)>>]]
    /\ UNCHANGED <<overflow_checks, enc, cap, bc>>

\* Every Writer is open and the caller has calls left to issue.
Callable ==
    /\ DOMAIN ws # {}
    /\ \A c \in DOMAIN ws : ws[c].phase = "Open" /\ Len(ws[c].log) <= MaxCalls

\* The Writer of convention c as a method receives it: &mut self.
Self(c) == [w |-> ws[c].w, model |-> ws[c].model]

\* The caller issues one call on every open Writer; rets[c] is what the
\* method of convention c returns and leaves of the Writer.
Issue(op, arg, io, rets) ==
    /\ io.ok \/ \A c \in DOMAIN ws : MayFail(ws[c].w)
    /\ ws' = [c \in DOMAIN ws |->
                LET r == rets[c]
                IN  [phase |-> IF r.res.kind = "Panic" THEN "Panicked" ELSE "Open",
                     model |-> r.self.model,
                     w     |-> r.self.w,
                     log   |-> Append(ws[c].log, Entry(op, arg, ws[c], r))]]
    /\ UNCHANGED <<overflow_checks, enc, cap, bc>>

CallInit ==
    /\ Callable
    /\ \E io \in CallOutcomes :
        Issue("init", CmdInit, io,
              [k \in DOMAIN ws |->
                  IF k = "std" THEN Std_init(Self(k), io)
                  ELSE Async_init(Self(k), io)])

CallSetUnicode ==
    /\ Callable
    /\ \E io \in CallOutcomes :
        Issue("set_unicode", CmdCharacterSet("Unicode"), io,
              [k \in DOMAIN ws |->
                  IF k = "std" THEN Std_set_unicode(Self(k), io)
                  ELSE Async_set_unicode(Self(k), io)])

CallCharacterSet ==
    /\ Callable
    /\ \E c \in CharacterSets, io \in CallOutcomes :
        Issue("character_set", CmdCharacterSet(c), io,
              [k \in DOMAIN ws |->
                  IF k = "std" THEN Std_character_set(Self(k), c, io)
                  ELSE Async_character_set(Self(k), c, io)])

CallCut ==
    /\ Callable
    /\ \E io \in CallOutcomes :
        Issue("cut", CmdCut, io,
              [k \in DOMAIN ws |->
                  IF k = "std" THEN Std_cut(Self(k), io)
                  ELSE Async_cut(Self(k), io)])

CallUnderline ==
    /\ Callable
    /\ \E state \in BOOLEAN, io \in CallOutcomes :
        Issue("underline", CmdUnderline(state), io,
              [k \in DOMAIN ws |->
                  IF k = "std" THEN Std_underline(Self(k), state, io)
                  ELSE Async_underline(Self(k), state, io)])

CallEmphasize ==
    /\ Callable
    /\ \E state \in BOOLEAN, io \in CallOutcomes :
        Issue("emphasize", CmdEmphasize(state), io,
              [k \in DOMAIN ws |->
                  IF k = "std" THEN Std_emphasize(Self(k), state, io)
                  ELSE Async_emphasize(Self(k), state, io)])

CallReverse ==
    /\ Callable
    /\ \E state \in BOOLEAN, io \in CallOutcomes :
        Issue("reverse", CmdReverse(state), io,
              [k \in DOMAIN ws |->
                  IF k = "std" THEN Std_reverse(Self(k), state, io)
                  ELSE Async_reverse(Self(k), state, io)])

CallDoubleStrike ==
    /\ Callable
    /\ \E state \in BOOLEAN, io \in CallOutcomes :
        Issue("double_strike", CmdDoubleStrike(state), io,
              [k \in DOMAIN ws |->
                  IF k = "std" THEN Std_double_strike(Self(k), state, io)
                  ELSE Async_double_strike(Self(k), state, io)])

CallJustify ==
    /\ Callable
    /\ \E alignment \in Alignments, io \in CallOutcomes :
        Issue("justify", CmdJustification(alignment), io,
              [k \in DOMAIN ws |->
                  IF k = "std" THEN Std_justify(Self(k), alignment, io)
                  ELSE Async_justify(Self(k), alignment, io)])

CallFeed ==
    /\ Callable
    /\ \E count \in Feeds, io \in CallOutcomes :
        Issue("feed", CmdFeed(count), io,
              [k \in DOMAIN ws |->
                  IF k = "std" THEN Std_feed(Self(k), count, io)
                  ELSE Async_feed(Self(k), count, io)])

CallSpeed ==
    /\ Callable
    /\ \E speed \in Speeds, io \in CallOutcomes :
        Issue("speed", CmdSpeed(speed), io,
              [k \in DOMAIN ws |->
                  IF k = "std" THEN Std_speed(Self(k), speed, io)
                  ELSE Async_speed(Self(k), speed, io)])

CallPrintImage ==
    /\ Callable
    /\ \E img \in Rasters, io \in CallOutcomes :
        Issue("print_image", CmdImage(img), io,
              [k \in DOMAIN ws |->
                  IF k = "std" THEN Std_print_image(Self(k), img, io)
                  ELSE Async_print_image(Self(k), img, io)])

CallPrintImageUnchecked ==
    /\ Callable
    /\ \E img \in Rasters, io \in CallOutcomes :
        Issue("print_image_unchecked", CmdImage(img), io,
              [k \in DOMAIN ws |->
                  IF k = "std" THEN Std_print_image_unchecked(Self(k), img, io)
                  ELSE Async_print_image_unchecked(Self(k), img, io)])

CallWriteCommand ==
    /\ Callable
    /\ \E cmd \in RawCommands, io \in CallOutcomes :
        Issue("write_command", cmd, io,
              [k \in DOMAIN ws |->
                  IF k = "std" THEN Std_write_command(Self(k), cmd, io)
                  ELSE Async_write_command(Self(k), cmd, io)])

CallWriteAll ==
    /\ Callable
    /\ \E buf \in RawBuffers, io \in CallOutcomes :
        Issue("write_all", [tag |-> "Bytes", buf |-> buf], io,
              [k \in DOMAIN ws |->
                  IF k = "std" THEN Std_write_all(Self(k), buf, io)
                  ELSE Async_write_all(Self(k), buf, io)])

Next ==
    \/ Open
    \/ CallInit
    \/ CallSetUnicode
    \/ CallCharacterSet
    \/ CallCut
    \/ CallUnderline
    \/ CallEmphasize
    \/ CallReverse
    \/ CallDoubleStrike
    \/ CallJustify
    \/ CallFeed
    \/ CallSpeed
    \/ CallPrintImage
    \/ CallPrintImageUnchecked
    \/ CallWriteCommand
    \/ CallWriteAll

\* One Writer, of either convention.
Init ==
    /\ overflow_checks \in BOOLEAN
    /\ ws \in {[c \in {k} |-> Unopened] : k \in Conventions}
    /\ enc = <<>>
    /\ cap = <<>>
    /\ bc = <<>>

Spec == Init /\ [][Next]_vars

\* A blocking and an async Writer, given the same calls on transports that
\* answer alike.
InitPair ==
    /\ overflow_checks \in BOOLEAN
    /\ ws = [c \in Conventions |-> Unopened]
    /\ enc = <<>>
    /\ cap = <<>>
    /\ bc = <<>>

SpecPair == InitPair /\ [][Next]_vars

----------------------------------------------------------------------------
(* The encoder on its own: a Command is given and as_bytes is applied to   *)
(* it, in either build.                                                    *)

EncoderInputs == Commands \cup {CmdImage(img) : img \in PackerRasters}

Encode ==
    /\ ~enc.done
    /\ enc' = [enc EXCEPT !.done = TRUE, !.out = as_bytes(enc.cmd)]
    /\ UNCHANGED <<overflow_checks, ws, cap, bc>>

NextEncode == Encode

InitEncode ==
    /\ overflow_checks \in BOOLEAN
    /\ ws = <<>>
    /\ enc \in {[cmd |-> cmd, done |-> FALSE, out |-> BOk(<<>>)] : cmd \in EncoderInputs}
    /\ cap = <<>>
    /\ bc = <<>>

SpecEncode == InitEncode /\ [][NextEncode]_vars

----------------------------------------------------------------------------
(* The checked image path near the maximum widths: a Writer is opened and  *)
(* print_image is called with rasters whose widths are just below, at and  *)
(* just above the maximum of a model, multiples of 8 or not.               *)

CallPrintImageNearLimit ==
    /\ Callable
    /\ \E img \in GateRasters, io \in CallOutcomes :
        Issue("print_image", CmdImage(img), io,
              [k \in DOMAIN ws |->
                  IF k = "std" THEN Std_print_image(Self(k), img, io)
                  ELSE Async_print_image(Self(k), img, io)])

NextGate ==
    \/ Open
    \/ CallPrintImageNearLimit

SpecGate == Init /\ [][NextGate]_vars

----------------------------------------------------------------------------
(* The capability table on its own: a model is asked about a character    *)
(* set and a raster.                                                       *)

QueryRasters == Rasters \cup LimitRasters \cup TwoByteRasters

Query ==
    /\ ~cap.done
    /\ cap' = [cap EXCEPT !.done = TRUE,
                          !.supports = supports_character_set(cap.model, cap.c),
                          !.max_image_width = get_max_image_width(cap.model),
                          !.columns = get_columns(cap.model),
                          !.check = check_image(cap.model, cap.img)]
    /\ UNCHANGED <<overflow_checks, ws, enc, bc>>

NextModels == Query

InitModels ==
    /\ overflow_checks \in BOOLEAN
    /\ ws = <<>>
    /\ enc = <<>>
    /\ bc = <<>>
    /\ cap \in {[model |-> m, c |-> c, img |-> img, done |-> FALSE,
                  supports |-> FALSE, max_image_width |-> 0, columns |-> 0,
                  check |-> EOk] :
                 m \in Models, c \in CharacterSets, img \in QueryRasters}

SpecModels == InitModels /\ [][NextModels]_vars

----------------------------------------------------------------------------
(* The barcode constructor on its own: new_upca is applied to a byte       *)
(* string.                                                                 *)

\* The longest byte string given to new_upca.
MaxBarcodeLen == 13

\* b"1234567890123"[..n]
Digits(n) == [i \in 1..n |-> 48 + (i % 10)]

\* Bytes below, at and above each end of '0'..'9', a letter, and the ends
\* of the u8 range.
BarcodeBytes == {0, 47, 48, 57, 58, 65, 255}

\* The digit strings of each length, and each of them with one byte
\* replaced.
BarcodeInputs ==
    {Digits(n) : n \in 0..MaxBarcodeLen}
    \cup UNION {{[Digits(n) EXCEPT ![i] = b] : i \in 1..n, b \in BarcodeBytes} :
                 n \in 0..MaxBarcodeLen}

NewUpca ==
    /\ ~bc.done
    /\ bc' = [bc EXCEPT !.done = TRUE, !.out = new_upca(bc.data)]
    /\ UNCHANGED <<overflow_checks, ws, enc, cap>>

NextBarcode == NewUpca

InitBarcode ==
    /\ overflow_checks \in BOOLEAN
    /\ ws = <<>>
    /\ enc = <<>>
    /\ cap = <<>>
    /\ bc \in {[data |-> d, done |-> FALSE, out |-> NewErr("none")] : d \in BarcodeInputs}

SpecBarcode == InitBarcode /\ [][NextBarcode]_vars

----------------------------------------------------------------------------
(* Properties.  What a call did is read from the log and the wire.         *)

\* The Writers for which open has returned a Writer.
Opened(s) == s.phase \in {"Open", "Panicked"}

RECURSIVE Offset(_, _)
\* The number of bytes on the wire before call i.
Offset(log, i) == IF i = 1 THEN 0 ELSE Offset(log, i - 1) + log[i - 1].sent

\* The bytes the transport received during call i.
Sent(s, i) ==
    LET off == Offset(s.log, i) IN
    SubSeq(s.w.wire, off + 1, off + s.log[i].sent)

IsPrefix(a, b) == Len(a) <= Len(b) /\ a = SubSeq(b, 1, Len(a))

TransportError(res) == res.kind \in {"Io", "Tokio", "io::Error"}

\* Call i handed `bytes` to the transport in one write: all of them were
\* received and the call succeeded, or the transport failed on them.
Written(s, i, bytes) ==
    /\ s.log[i].writes = 1
    /\ \/ s.log[i].res = ROk /\ Sent(s, i) = bytes
       \/ /\ TransportError(s.log[i].res)
          /\ s.log[i].sent < Len(bytes)
          /\ IsPrefix(Sent(s, i), bytes)

\* Call i returned the crate error `err` and the transport saw nothing.
Refused(s, i, err) ==
    /\ s.log[i].res = [kind |-> "Epson", err |-> err]
    /\ s.log[i].sent = 0
    /\ s.log[i].writes = 0

\* The capability table as the specification gives it.
MaxWidthRef(model) == IF model = "Generic" THEN 512 ELSE 576
SupportsRef(model, c) == c = "Raw" \/ model = "T30II"

\* C1: the first bytes a transport receives are Init, [0x1B, 0x40], written
\* by open in one write; a caller holds a Writer only after all of Init was
\* received, and no call is made before open or after an open that failed.
C1_InitFirst ==
    \A c \in DOMAIN ws :
        LET s == ws[c] IN
        /\ s.phase = "Unopened" => s.w.wire = <<>> /\ s.log = <<>>
        /\ s.log # <<>> =>
              /\ s.log[1].op = "open"
              /\ s.log[1].writes = 1
              /\ IsPrefix(Sent(s, 1), <<27, 64>>)
              /\ \A i \in 2..Len(s.log) : s.log[i].op # "open"
        /\ Opened(s) =>
              /\ s.log[1].res = ROk
              /\ Sent(s, 1) = <<27, 64>>
              /\ IsPrefix(<<27, 64>>, s.w.wire)
        /\ s.phase = "OpenFailed" => Len(s.log) = 1 /\ s.log[1].res # ROk

C1_Witness ==
    \E c \in DOMAIN ws :
        /\ ws[c].phase = "Open"
        /\ Len(ws[c].log) = 3
        /\ ws[c].log[2].sent > 0
        /\ ws[c].log[3].op = "init"
        /\ Len(ws[c].w.wire) > 4

\* C2: character_set(c) and set_unicode on a model that does not support
\* the character set return Unsupported and write nothing; on a model that
\* supports it the command is encoded and written.  set_unicode succeeds
\* only on T30II.
C2_CharacterSetGate ==
    \A c \in DOMAIN ws :
        LET s == ws[c] IN
        \A i \in 1..Len(s.log) :
            s.log[i].op \in {"character_set", "set_unicode"} =>
                /\ s.log[i].op = "set_unicode" => s.log[i].arg.c = "Unicode"
                /\ IF SupportsRef(s.model, s.log[i].arg.c)
                   THEN Written(s, i, as_bytes(CmdCharacterSet(s.log[i].arg.c)).bytes)
                   ELSE Refused(s, i, "Unsupported")
                /\ (s.log[i].op = "set_unicode" /\ s.log[i].res = ROk)
                       => s.model = "T30II"
                /\ (s.log[i].op = "set_unicode" /\ s.model \in {"Generic", "T20II"})
                       => Refused(s, i, "Unsupported")

C2_Witness ==
    \E c \in DOMAIN ws :
        LET s == ws[c] IN
        /\ Len(s.log) = 3
        /\ s.log[2].op = "set_unicode" /\ Refused(s, 2, "Unsupported")
        /\ s.log[3].op = "character_set" /\ s.log[3].res = ROk /\ s.log[3].sent > 0

\* C3: an Image command that print_image transmits has a raster no wider
\* than the active model's maximum (512 for Generic, 576 for T20II and
\* T30II); print_image with a wider raster returns an error and writes
\* nothing; a raster exactly at the maximum is accepted.
C3_ImageWidthGate ==
    \A c \in DOMAIN ws :
        LET s == ws[c] IN
        \A i \in 1..Len(s.log) :
            s.log[i].op = "print_image" =>
                LET img == s.log[i].arg.img
                    max == MaxWidthRef(s.model)
                IN  /\ s.log[i].sent > 0 => ~WidthGt(img.width, max)
                    /\ WidthGt(img.width, max) =>
                          /\ s.log[i].res.kind = "Epson"
                          /\ s.log[i].sent = 0
                          /\ s.log[i].writes = 0
                    /\ (img.width = Width(max) /\ img.height <= U16Max) =>
                          Written(s, i, as_bytes(CmdImage(img)).bytes)

C3_Witness ==
    \E c \in DOMAIN ws :
        LET s == ws[c] IN
        /\ Len(s.log) = 3
        /\ s.model = "Generic"
        /\ s.log[2].op = "print_image" /\ s.log[2].arg.img.width = Width(512)
        /\ s.log[2].res = ROk /\ s.log[2].sent = 8 + 64
        /\ s.log[3].op = "print_image" /\ s.log[3].arg.img.width = Width(513)
        /\ s.log[3].res.kind = "Epson"

\* C4: when the packer fails on the raster of an Image command,
\* write_command, print_image and print_image_unchecked return that failure
\* and the transport receives nothing in that call: no header, no payload,
\* no write at all.
C4_NoPartialImage ==
    \A c \in DOMAIN ws :
        LET s == ws[c] IN
        \A i \in 1..Len(s.log) :
            (/\ s.log[i].op \in {"write_command", "print_image", "print_image_unchecked"}
             /\ s.log[i].arg.tag = "Image"
             /\ try_from(s.log[i].arg.img).kind = "Err")
                => Refused(s, i, try_from(s.log[i].arg.img).err)

C4_Witness ==
    \E c \in DOMAIN ws :
        LET s == ws[c] IN
        /\ Len(s.log) = 3
        /\ s.log[2].op = "print_image" /\ s.log[2].arg.img = TooHighRaster
        /\ Refused(s, 2, "ImageTooLarge")
        /\ s.log[3].op = "print_image_unchecked" /\ s.log[3].arg.img = TooWideRaster
        /\ Refused(s, 3, "ImageTooLarge")
        /\ s.w.wire = <<27, 64>>

\* What a call that returns success is to put on the wire.
EncodingOf(e) ==
    IF e.op = "write_all" THEN e.arg.buf
    ELSE IF e.op = "open" THEN <<27, 64>>
    ELSE as_bytes(e.arg).bytes

RECURSIVE ExpectedWire(_, _)
\* Init and then the encodings of the first n calls that returned success.
ExpectedWire(log, n) ==
    IF n = 0 THEN <<>>
    ELSE ExpectedWire(log, n - 1)
         \o (IF log[n].res = ROk THEN EncodingOf(log[n]) ELSE <<>>)

\* C5: on a transport that never fails, the wire is Init followed by the
\* encodings of the calls that returned success, in the order they were
\* issued; each such call made one write, of its whole encoding, and a call
\* that was refused made none.
C5_WireIsConcatenation ==
    \A c \in DOMAIN ws :
        LET s == ws[c] IN
        (Opened(s) /\ s.w.nfailed = 0) =>
            /\ s.w.wire = ExpectedWire(s.log, Len(s.log))
            /\ \A i \in 1..Len(s.log) :
                  IF s.log[i].res = ROk
                  THEN s.log[i].writes = 1 /\ Sent(s, i) = EncodingOf(s.log[i])
                  ELSE s.log[i].writes = 0 /\ s.log[i].sent = 0

C5_Witness ==
    \E c \in DOMAIN ws :
        LET s == ws[c] IN
        /\ s.w.nfailed = 0
        /\ Len(s.log) = 3
        /\ s.log[2].op = "print_image" /\ s.log[2].res = ROk /\ s.log[2].sent > 8
        /\ s.log[3].op = "cut" /\ s.log[3].res = ROk
        /\ s.w.nwrites = 3

\* The outcome of a call as a caller of either convention tells it: success,
\* a crate error and which, a failure of the transport, or a panic.
Outcome(res) ==
    IF TransportError(res) THEN [kind |-> "Transport", err |-> "io"]
    ELSE [kind |-> res.kind, err |-> res.err]

\* C6: for the same model and the same calls, the blocking and the async
\* Writer return the same outcome for each call and their transports
\* receive the same bytes, call by call.
C6_ConventionsAgree ==
    (DOMAIN ws = Conventions) =>
        LET a == ws["std"]
            b == ws["tokio"]
        IN  /\ a.phase = b.phase
            /\ a.model = b.model
            /\ a.w.wire = b.w.wire
            /\ a.w.nwrites = b.w.nwrites
            /\ Len(a.log) = Len(b.log)
            /\ \A i \in 1..Len(a.log) :
                  /\ a.log[i].op = b.log[i].op
                  /\ a.log[i].arg = b.log[i].arg
                  /\ Outcome(a.log[i].res) = Outcome(b.log[i].res)
                  /\ a.log[i].sent = b.log[i].sent
                  /\ a.log[i].writes = b.log[i].writes

C6_Witness ==
    /\ DOMAIN ws = Conventions
    /\ Len(ws["std"].log) = 3 /\ Len(ws["tokio"].log) = 3
    /\ ws["std"].log[2].op = "print_image"
    /\ ws["std"].log[2].res = Std_Epson("ImageTooLarge")
    /\ ws["tokio"].log[2].res = Async_Epson("ImageTooLarge")
    /\ ws["std"].log[3].op = "print_image_unchecked"
    /\ ws["std"].log[3].res = Std_Io /\ ws["tokio"].log[3].res = Async_Tokio
    /\ ws["tokio"].log[3].sent > 8
    /\ ws["std"].w.wire = ws["tokio"].w.wire

\* What an Image call that consults no model does: it encodes the command
\* and, when that succeeds, hands the bytes to the transport in one write.
UngatedImage(s, i) ==
    LET bytes == as_bytes(CmdImage(s.log[i].arg.img)) IN
    CASE bytes.kind = "Ok"    -> Written(s, i, bytes.bytes)
      [] bytes.kind = "Err"   -> Refused(s, i, bytes.err)
      [] bytes.kind = "Panic" ->
            s.log[i].res = RPanic /\ s.log[i].sent = 0 /\ s.log[i].writes = 0

\* C7: print_image_unchecked consults no model: for every model and every
\* raster, wider than the model's maximum or not, it encodes the Image
\* command and transmits the bytes when the encoding succeeds; print_image
\* does the same but for the rasters its width gate rejects.
C7_UncheckedHasNoGate ==
    \A c \in DOMAIN ws :
        LET s == ws[c] IN
        \A i \in 1..Len(s.log) :
            /\ s.log[i].op = "print_image_unchecked" => UngatedImage(s, i)
            /\ s.log[i].op = "print_image" =>
                  IF WidthGt(s.log[i].arg.img.width, MaxWidthRef(s.model))
                  THEN /\ s.log[i].res.kind = "Epson"
                       /\ s.log[i].sent = 0
                       /\ s.log[i].writes = 0
                  ELSE UngatedImage(s, i)

C7_Witness ==
    \E c \in DOMAIN ws :
        LET s == ws[c] IN
        /\ Len(s.log) = 3
        /\ s.model = "T20II"
        /\ s.log[2].op = "print_image" /\ s.log[2].arg.img.width = Width(577)
        /\ s.log[2].res.kind = "Epson" /\ s.log[2].sent = 0
        /\ s.log[3].op = "print_image_unchecked" /\ s.log[3].arg = s.log[2].arg
        /\ s.log[3].res = ROk /\ s.log[3].sent = 8 + 73

\* The calls print_image rejected at the width gate.
RejectedAtWidthGate(s, i) ==
    /\ s.log[i].op = "print_image"
    /\ WidthGt(s.log[i].arg.img.width, MaxWidthRef(s.model))

\* The error kind the Writer returns for a character set its model does
\* not support.
CapabilityError(res) == res = [kind |-> "Epson", err |-> "Unsupported"]

\* C8 as stated: print_image rejecting a raster wider than the model's
\* maximum returns the capability error, the one an unsupported character
\* set gets, and not a transport error.
C8_RejectionIsCapabilityError ==
    \A c \in DOMAIN ws :
        \A i \in 1..Len(ws[c].log) :
            RejectedAtWidthGate(ws[c], i) =>
                /\ CapabilityError(ws[c].log[i].res)
                /\ ~TransportError(ws[c].log[i].res)

\* C8: print_image rejecting a raster wider than the model's maximum
\* returns the size-limit error ImageTooLarge, the one the packer returns
\* for a raster beyond the 16-bit dimensions; it is not the capability
\* error Unsupported and not a transport error, and nothing is written.
C8_RejectionIsSizeLimitError ==
    \A c \in DOMAIN ws :
        \A i \in 1..Len(ws[c].log) :
            RejectedAtWidthGate(ws[c], i) =>
                /\ Refused(ws[c], i, "ImageTooLarge")
                /\ ~CapabilityError(ws[c].log[i].res)
                /\ ~TransportError(ws[c].log[i].res)

C8_Witness ==
    \E c \in DOMAIN ws :
        LET s == ws[c] IN
        /\ Len(s.log) = 3
        /\ s.model = "Generic"
        /\ s.log[2].op = "set_unicode" /\ CapabilityError(s.log[2].res)
        /\ RejectedAtWidthGate(s, 3)
        /\ s.log[3].arg.img.width = Width(513)
        /\ s.log[3].res = [kind |-> "Epson", err |-> "ImageTooLarge"]

\* What call i is to do, told from the Writer's model and the call's own
\* arguments alone: the gate of the call, if it has one, and then the
\* encoding handed to the transport in one write.
Contract(s, i) ==
    LET e == s.log[i] IN
    CASE e.op \in {"character_set", "set_unicode"} ->
            IF SupportsRef(s.log[1].arg.model, e.arg.c)
            THEN Written(s, i, as_bytes(e.arg).bytes)
            ELSE Refused(s, i, "Unsupported")
      [] e.op = "print_image" ->
            IF WidthGt(e.arg.img.width, MaxWidthRef(s.log[1].arg.model))
            THEN Refused(s, i, "ImageTooLarge")
            ELSE UngatedImage(s, i)
      [] e.op = "write_all" -> Written(s, i, e.arg.buf)
      [] OTHER ->
            LET bytes == as_bytes(e.arg) IN
            CASE bytes.kind = "Ok"    -> Written(s, i, bytes.bytes)
              [] bytes.kind = "Err"   -> Refused(s, i, bytes.err)
              [] bytes.kind = "Panic" ->
                    e.res = RPanic /\ e.sent = 0 /\ e.writes = 0

\* A call that returned an error: a crate error or a transport error.
Failed(res) == res.kind = "Epson" \/ TransportError(res)

\* C9: the model of a Writer is the one given to open, whatever was called
\* since; a call that fails made at most one write (none for a crate
\* error) and the failed write is not tried again; the call after a failed
\* call is gated and encoded as its own arguments and the model say, as if
\* the failed call had not been made.
C9_NoLatchedError ==
    \A c \in DOMAIN ws :
        LET s == ws[c] IN
        Opened(s) =>
            /\ s.model = s.log[1].arg.model
            /\ \A i \in 2..Len(s.log) :
                  /\ Failed(s.log[i].res) =>
                        /\ s.log[i].writes <= 1
                        /\ s.log[i].res.kind = "Epson" => s.log[i].writes = 0
                  /\ Contract(s, i)

C9_Witness ==
    \E c \in DOMAIN ws :
        LET s == ws[c] IN
        /\ Len(s.log) = 3
        /\ s.model = "Generic"
        /\ s.log[2].op = "print_image" /\ TransportError(s.log[2].res)
        /\ s.log[2].sent > 8 /\ s.log[2].writes = 1
        /\ s.log[3].op = "print_image" /\ s.log[3].arg = s.log[2].arg
        /\ s.log[3].res = ROk /\ s.log[3].sent = s.log[2].sent + 1

\* C10: for every n in 0..255 the encoder succeeds on Speed(n) and gives
\* the 7 bytes [0x1D, 0x28, 0x4B, 0x02, 0x00, 0x32, n mod 9]: the last byte
\* is in 0..8, Speed(8) gives 8, Speed(9) gives 0, and no n is clamped or
\* rejected.
C10_SpeedModNine ==
    (enc.done /\ enc.cmd.tag = "Speed") =>
        LET n == enc.cmd.speed
            b == enc.out.bytes
        IN  /\ n \in 0..255
            /\ enc.out.kind = "Ok"
            /\ Len(b) = 7
            /\ SubSeq(b, 1, 6) = <<29, 40, 75, 2, 0, 50>>
            /\ b[7] \in 0..8
            /\ \E k \in 0..28 : n = 9 * k + b[7]
            /\ n = 8 => b[7] = 8
            /\ n = 9 => b[7] = 0
            /\ n = 255 => b[7] = 3

C10_Witness ==
    /\ enc.done
    /\ enc.cmd = CmdSpeed(9)
    /\ enc.out = BOk(<<29, 40, 75, 2, 0, 50, 0>>)

\* The wire code of an alignment as the command table gives it.
AlignmentCode(a) ==
    CASE a = "Left"   -> 0
      [] a = "Center" -> 1
      [] a = "Right"  -> 2

\* C11: Justification(a) encodes to [0x1B, 0x61, code(a)] with code(Left) = 0,
\* code(Center) = 1 and code(Right) = 2, whatever the order in which the
\* variants of Alignment are declared; the three codes are distinct.
C11_JustificationCodes ==
    (enc.done /\ enc.cmd.tag = "Justification") =>
        /\ enc.cmd.alignment \in {"Left", "Center", "Right"}
        /\ enc.out = BOk(<<27, 97, AlignmentCode(enc.cmd.alignment)>>)
        /\ \A a \in Alignments \ {enc.cmd.alignment} :
              as_bytes(CmdJustification(a)) # enc.out

C11_Witness ==
    /\ enc.done
    /\ enc.cmd = CmdJustification("Right")
    /\ enc.out = BOk(<<27, 97, 2>>)

\* The fixed-format commands as the command table gives them.
FixedFormat(cmd) ==
    CASE cmd.tag = "Init"         -> <<27, 64>>
      [] cmd.tag = "Cut"          -> <<27, 105>>
      [] cmd.tag = "Underline"    -> <<27, 45, IF cmd.state THEN 1 ELSE 0>>
      [] cmd.tag = "Emphasize"    -> <<27, 69, IF cmd.state THEN 255 ELSE 0>>
      [] cmd.tag = "DoubleStrike" -> <<27, 71, IF cmd.state THEN 255 ELSE 0>>
      [] cmd.tag = "Reverse"      -> <<27, 66, IF cmd.state THEN 255 ELSE 0>>
      [] cmd.tag = "Feed"         -> <<27, 100, cmd.count>>

\* C12: for every parameter value the encoder succeeds on Init, Cut,
\* Underline, Emphasize, DoubleStrike, Reverse and Feed and gives the bytes
\* of the table; Feed(n) carries n itself for every n in 0..255.
C12_FixedFormatCommands ==
    (/\ enc.done
     /\ enc.cmd.tag \in {"Init", "Cut", "Underline", "Emphasize",
                         "DoubleStrike", "Reverse", "Feed"})
        => /\ enc.out.kind = "Ok"
           /\ enc.out.bytes = FixedFormat(enc.cmd)
           /\ enc.cmd.tag = "Feed" =>
                 enc.cmd.count \in 0..255 /\ enc.out.bytes[3] = enc.cmd.count

C12_Witness ==
    /\ enc.done
    /\ enc.cmd = CmdFeed(255)
    /\ enc.out = BOk(<<27, 100, 255>>)

\* C13: for a raster that packs, Image encodes to the 8-byte header
\* [0x1D, 0x76, 0x30, 0x00, w_lo, w_hi, h_lo, h_hi] followed by the packed
\* bytes, where w = w_lo + 256 * w_hi is the packed width in bytes and
\* h = h_lo + 256 * h_hi is the height of the raster, and the payload after
\* the header has w * h bytes.
C13_ImageHeaderAndPayload ==
    (enc.done /\ enc.cmd.tag = "Image" /\ try_from(enc.cmd.img).kind = "Ok") =>
        LET buf == try_from(enc.cmd.img)
            b   == enc.out.bytes
        IN  /\ enc.out.kind = "Ok"
            /\ Len(b) >= 8
            /\ SubSeq(b, 1, 4) = <<29, 118, 48, 0>>
            /\ \A i \in 5..8 : b[i] \in 0..255
            /\ b[5] + 256 * b[6] = buf.width
            /\ b[7] + 256 * b[8] = dimensions(enc.cmd.img)[2]
            /\ SubSeq(b, 9, Len(b)) = buf.pixels
            /\ Len(b) - 8 = (b[5] + 256 * b[6]) * (b[7] + 256 * b[8])

C13_Witness ==
    /\ enc.done
    /\ enc.cmd = CmdImage(Raster(0, 258, <<0>>))
    /\ enc.out = BOk(<<29, 118, 48, 0, 0, 0, 2, 1>>)

\* ceil(W / 8) of a u32 width, as a mathematical integer.
CeilDiv8(w) == w.q + (IF w.r = 0 THEN 0 ELSE 1)

\* C14: packing a raster of u32 width W and height H fails with
\* ImageTooLarge and gives no buffer when ceil(W/8) > 65535 or H > 65535,
\* and succeeds otherwise with recorded width ceil(W/8) and height H; it
\* never panics or wraps.
C14_PackerSizeLimit ==
    (enc.done /\ enc.cmd.tag = "Image") =>
        LET W == dimensions(enc.cmd.img)[1]
            H == dimensions(enc.cmd.img)[2]
            r == try_from(enc.cmd.img)
        IN  /\ r.kind # "Panic"
            /\ enc.out # BPanic
            /\ IF CeilDiv8(W) > 65535 \/ H > 65535
               THEN /\ r.kind = "Err" /\ r.err = "ImageTooLarge"
                    /\ r.pixels = <<>>
                    /\ enc.out = BErr("ImageTooLarge")
               ELSE /\ r.kind = "Ok"
                    /\ r.width = CeilDiv8(W)
                    /\ r.height = H
                    /\ enc.out.kind = "Ok"

\* C15: every model supports Raw; of the two named models exactly one,
\* T30II, supports Unicode, and T20II and Generic do not.
C15_CharacterSetSupport ==
    cap.done =>
        /\ cap.c = "Raw" => cap.supports
        /\ cap.c = "Unicode" => (cap.supports <=> cap.model = "T30II")
        /\ (cap.c = "Unicode" /\ cap.model \in {"T20II", "Generic"}) => ~cap.supports
        /\ \A m \in Models : supports_character_set(m, "Raw")
        /\ Cardinality({m \in {"T20II", "T30II"} :
                            supports_character_set(m, "Unicode")}) = 1

C15_Witness ==
    /\ cap.done
    /\ cap.model = "T30II"
    /\ cap.c = "Unicode"
    /\ cap.supports

\* The bytes '0'..'9'.
AsciiDigits == 48..57

\* C16: new_upca(data) succeeds exactly when data has 11 or 12 bytes, all
\* of them ASCII digits; with any other length it fails with
\* InvalidBarcodeLength, with a right length and a byte that is not a digit
\* it fails with InvalidBarcodeCharacters, and a failure carries no Barcode.
C16_UpcaValidation ==
    bc.done =>
        LET n      == Len(bc.data)
            digits == \A i \in 1..n : bc.data[i] \in AsciiDigits
        IN  /\ bc.out.kind = "Ok" <=> (n \in {11, 12} /\ digits)
            /\ n \notin {11, 12} =>
                  bc.out.kind = "Err" /\ bc.out.err = "InvalidBarcodeLength"
            /\ (n \in {11, 12} /\ ~digits) =>
                  bc.out.kind = "Err" /\ bc.out.err = "InvalidBarcodeCharacters"
            /\ bc.out.kind = "Err" => bc.out.value = <<>>
            /\ bc.out.kind = "Ok" => Len(bc.out.value) = 1

C16_Witness ==
    /\ bc.done
    /\ bc.data = [Digits(11) EXCEPT ![11] = 65]
    /\ bc.out.kind = "Err"
    /\ bc.out.err = "InvalidBarcodeCharacters"

\* C17: new_upca with 11 digits succeeds and the Barcode carries the 11
\* digits followed by a check digit; with 12 digits it succeeds and the
\* Barcode carries the 12 digits unchanged.
C17_UpcaCheckDigit ==
    (bc.done /\ Len(bc.data) \in {11, 12}
             /\ \A i \in 1..Len(bc.data) : bc.data[i] \in AsciiDigits) =>
        /\ bc.out.kind = "Ok"
        /\ LET data == Barcode_data(bc.out.value[1]) IN
           IF Len(bc.data) = 11
           THEN /\ Len(data) = 12
                /\ SubSeq(data, 1, 11) = bc.data
                /\ data[12] \in AsciiDigits
           ELSE data = bc.data

\* The packed width, height and payload an encoded Image carries.
PackedWidth   == enc.out.bytes[5] + 256 * enc.out.bytes[6]
PackedHeight  == enc.out.bytes[7] + 256 * enc.out.bytes[8]
PackedPayload == SubSeq(enc.out.bytes, 9, Len(enc.out.bytes))

\* An Image whose raster packed.
PackedImage == enc.done /\ enc.cmd.tag = "Image" /\ enc.out.kind = "Ok"

\* The sample of the raster at (x, y), inside the raster.
SampleAt(img, x, y) ==
    img.samples[((y * (8 * img.width.q + img.width.r) + x) % Len(img.samples)) + 1]

\* Whether bit number `bit` (0 the least significant) of a byte is set.
BitSet(byte, bit) == (byte \div Pow2(bit)) % 2 = 1

\* C18: for a raster of width W and height H that packs, the packed width
\* is ceil(W/8), so that rows are padded to the least multiple of 8 that is
\* >= W (W itself when it is a multiple of 8), the packed height is H, and
\* the buffer has ceil(W/8) * H bytes, row after row.
C18_PackedDimensions ==
    PackedImage =>
        LET W == dimensions(enc.cmd.img)[1]
            H == dimensions(enc.cmd.img)[2]
            w == PackedWidth
        IN  /\ w = CeilDiv8(W)
            /\ 8 * w - (8 * W.q + W.r) \in 0..7
            /\ W.r = 0 => 8 * w = 8 * W.q
            /\ PackedHeight = H
            /\ Len(PackedPayload) = CeilDiv8(W) * H
            /\ \A y \in 0..(H - 1) : \A j \in 0..(w - 1) :
                  PackedPayload[y * w + j + 1] >= 128
                      <=> SampleAt(enc.cmd.img, 8 * j, y) <= 128

\* C19: in the packed output of a raster of width W, whatever its height
\* and samples, no bit of a padding column x >= W is set; when W is not a
\* multiple of 8 the low 8 - (W mod 8) bits of the last byte of every row
\* are 0.
C19_PaddingNeverSet ==
    PackedImage =>
        LET W == dimensions(enc.cmd.img)[1]
            w == PackedWidth
        IN  \A k \in 1..Len(PackedPayload) :
                /\ \A bit \in 0..7 :
                      ~WidthLt(((k - 1) % w) * 8 + (7 - bit), W)
                          => ~BitSet(PackedPayload[k], bit)
                /\ (W.r # 0 /\ k % w = 0)
                      => PackedPayload[k] % Pow2(8 - W.r) = 0

C19_Witness ==
    /\ enc.done
    /\ enc.cmd = CmdImage(Raster(9, 2, <<0>>))
    /\ enc.out = BOk(<<29, 118, 48, 0, 2, 0, 2, 0, 255, 128, 255, 128>>)

\* C20: for every pixel (x, y) of a raster of width W, bit 7 - (x mod 8) of
\* packed byte number y * ceil(W/8) + floor(x/8) is set exactly when the
\* sample is <= 128, so that the most significant bit of a byte is the
\* leftmost pixel of its group of 8.
C20_PixelBits ==
    PackedImage =>
        LET img  == enc.cmd.img
            W    == dimensions(img)[1]
            H    == dimensions(img)[2]
            cols == CeilDiv8(W)
        IN  /\ Len(PackedPayload) = cols * H
            /\ \A y \in 0..(H - 1) : \A x \in 0..(8 * W.q + W.r - 1) :
                  BitSet(PackedPayload[y * cols + (x \div 8) + 1], 7 - (x % 8))
                      <=> SampleAt(img, x, y) <= 128

\* C21: when the transport fails the write of Init during open, open
\* returns the transport error of its convention and no Writer, and no call
\* follows; a caller holds a Writer from open only if the write of Init
\* completed, all of [0x1B, 0x40] having been received.
C21_NoWriterWithoutInit ==
    \A c \in DOMAIN ws :
        LET s == ws[c] IN
        s.log # <<>> =>
            LET o == s.log[1] IN
            /\ o.op = "open"
            /\ o.sent < 2 =>
                  /\ s.phase = "OpenFailed"
                  /\ o.res = (IF c = "std" THEN Std_Io ELSE Async_Tokio)
                  /\ s.model = "none"
                  /\ Len(s.log) = 1
            /\ Opened(s) =>
                  /\ o.res = ROk
                  /\ o.writes = 1
                  /\ o.sent = 2
                  /\ SubSeq(s.w.wire, 1, 2) = <<27, 64>>
            /\ s.phase = "OpenFailed" => TransportError(o.res) /\ o.sent < 2

C21_Witness ==
    \E c \in DOMAIN ws :
        /\ ws[c].phase = "OpenFailed"
        /\ ws[c].w.wire = <<27>>
        /\ ws[c].w.nfailed = 1
        /\ TransportError(ws[c].log[1].res)

\* The most bytes a row of an image a model accepts may have.
MaxRowBytes(model) == IF model = "Generic" THEN 64 ELSE 72

\* C22: the gate of print_image compares the unpadded width, and padding
\* does not take an accepted raster past the maximum: in every Image
\* command print_image puts on the wire the width field is ceil(W/8), and 8
\* times it is at most the model's maximum width (at most 64 bytes for
\* Generic, 72 for T20II and T30II).
C22_PaddingWithinGate ==
    \A c \in DOMAIN ws :
        LET s == ws[c] IN
        \A i \in 1..Len(s.log) :
            (s.log[i].op = "print_image" /\ s.log[i].res.kind # "Epson") =>
                LET img == s.log[i].arg.img
                    b   == Sent(s, i)
                IN  /\ ~WidthGt(img.width, MaxWidthRef(s.model))
                    /\ s.log[i].writes = 1
                    /\ Len(b) >= 8
                    /\ SubSeq(b, 1, 4) = <<29, 118, 48, 0>>
                    /\ b[5] + 256 * b[6] = CeilDiv8(img.width)
                    /\ 8 * (b[5] + 256 * b[6]) <= MaxWidthRef(s.model)
                    /\ 8 * (b[5] + 256 * b[6]) <= get_max_image_width(s.model)
                    /\ b[5] + 256 * b[6] <= MaxRowBytes(s.model)

C22_Witness ==
    \E c \in DOMAIN ws :
        LET s == ws[c] IN
        /\ Len(s.log) = 3
        /\ s.model = "Generic"
        /\ s.log[2].op = "print_image" /\ s.log[2].arg.img.width = Width(505)
        /\ s.log[2].res = ROk /\ s.log[2].sent = 8 + 64
        /\ s.log[3].op = "print_image" /\ s.log[3].arg.img.width = Width(513)
        /\ s.log[3].res.kind = "Epson"

=============================================================================
